---- MODULE Spec2Model ----
(***************************************************************************)
(* Model of src/mps.py: the MPS and MPO classes (matrix-product states and *)
(* operators), their constructors, MPS.transfer_matrix, MPS.expect and the *)
(* canonical-form methods.                                                 *)
(*                                                                         *)
(* Numbers are exact Gaussian integers <<re, im>> (the inverse taken by    *)
(* matrix_power for a negative exponent is computed over Gaussian          *)
(* rationals).  A numpy array is a record of its shape and its row-major   *)
(* data, so that reshape, swapaxes and tensordot act on the layout exactly *)
(* as numpy does.  A raised Python exception is a value of kind "exc" that *)
(* every array operation passes on.                                        *)
(***************************************************************************)
EXTENDS Integers, Sequences, FiniteSets, TLC

(* ------------------------------------------------------------------ *)
(* bounds                                                             *)
(* ------------------------------------------------------------------ *)
\* longest unit cell (number of site tensors) handed to a constructor
MaxLuc == 2
\* largest positive chain length L handed to the MPS constructor
MaxL == 2

(* ------------------------------------------------------------------ *)
(* Python values                                                      *)
(* ------------------------------------------------------------------ *)
None == [kind |-> "None"]
Raise(name) == [kind |-> "exc", name |-> name]
IsExc(x) == x.kind = "exc"
IsNone(x) == x.kind = "None"
IsArr(x) == x.kind = "arr"
IsNum(x) == x.kind = "num"
\* a Python / numpy scalar with complex value z = <<re, im>>
Num(z) == [kind |-> "num", val |-> z]
PyInt(n) == [kind |-> "int", val |-> n]
np_inf == [kind |-> "inf"]

\* evaluates a function-valued expression once, to an explicit value
Eval(f) == IF f = f THEN f ELSE f

(* ------------------------------------------------------------------ *)
(* complex arithmetic                                                 *)
(* ------------------------------------------------------------------ *)
\* A number is <<re, im>> with integer parts, or <<re, im, den>> with den > 1
\* for the Gaussian rational (re + i im) / den in lowest terms.
Z0 == <<0, 0>>
Z1 == <<1, 0>>
Zi == <<0, 1>>
Abs(n) == IF n < 0 THEN 0 - n ELSE n
RECURSIVE Gcd(_, _)
Gcd(a, b) == IF b = 0 THEN a ELSE Gcd(b, a % b)
Den(x) == IF Len(x) = 2 THEN 1 ELSE x[3]
\* lowest terms of (a + i b) / m, m > 0
Frac(a, b, m) ==
    LET g == Gcd(Gcd(Abs(a), Abs(b)), m)
    IN  IF m = g THEN <<a \div g, b \div g>> ELSE <<a \div g, b \div g, m \div g>>
CAdd(x, y) ==
    IF Len(x) = 2 /\ Len(y) = 2 THEN <<x[1] + y[1], x[2] + y[2]>>
    ELSE Frac(x[1] * Den(y) + y[1] * Den(x), x[2] * Den(y) + y[2] * Den(x), Den(x) * Den(y))
CMul(x, y) ==
    IF Len(x) = 2 /\ Len(y) = 2
    THEN <<x[1] * y[1] - x[2] * y[2], x[1] * y[2] + x[2] * y[1]>>
    ELSE Frac(x[1] * y[1] - x[2] * y[2], x[1] * y[2] + x[2] * y[1], Den(x) * Den(y))
CNeg(x) == IF Len(x) = 2 THEN <<0 - x[1], 0 - x[2]>> ELSE <<0 - x[1], 0 - x[2], x[3]>>
CConj(x) == IF Len(x) = 2 THEN <<x[1], 0 - x[2]>> ELSE <<x[1], 0 - x[2], x[3]>>
CIsZero(x) == x[1] = 0 /\ x[2] = 0
\* 1 / x for x # 0
CInv(x) == Frac(Den(x) * x[1], 0 - Den(x) * x[2], x[1] * x[1] + x[2] * x[2])

\* sum of f[1..n], f a sequence of complex numbers
RECURSIVE CSum(_, _)
CSum(f, n) == IF n = 0 THEN Z0 ELSE CAdd(CSum(f, n - 1), f[n])

(* ------------------------------------------------------------------ *)
(* numpy arrays: [kind, shape, data], data in row-major (C) order     *)
(* ------------------------------------------------------------------ *)
RECURSIVE ProdSeq(_)
ProdSeq(s) == IF Len(s) = 0 THEN 1 ELSE Head(s) * ProdSeq(Tail(s))

Arr(shape, data) == [kind |-> "arr", shape |-> shape, data |-> Eval(data)]
Size(a) == ProdSeq(a.shape)

\* stride of axis p (1-based position) in a row-major layout
Stride(shape, p) == ProdSeq(SubSeq(shape, p + 1, Len(shape)))
\* multi-index (0-based entries) of the flat 0-based offset k
Unravel(k, shape) == [p \in 1..Len(shape) |-> (k \div Stride(shape, p)) % shape[p]]
\* flat 0-based offset of a multi-index
RECURSIVE RavelFrom(_, _, _)
RavelFrom(idx, shape, p) ==
    IF p > Len(shape) THEN 0
    ELSE idx[p] * Stride(shape, p) + RavelFrom(idx, shape, p + 1)
Ravel(idx, shape) == RavelFrom(idx, shape, 1)
\* element of array a at a 0-based multi-index
At(a, idx) == a.data[Ravel(idx, a.shape) + 1]

RemoveAt(s, p) == SubSeq(s, 1, p - 1) \o SubSeq(s, p + 1, Len(s))
InsertAt(s, p, x) == SubSeq(s, 1, p - 1) \o <<x>> \o SubSeq(s, p, Len(s))
SwapAt(s, p, q) == [r \in 1..Len(s) |-> IF r = p THEN s[q] ELSE IF r = q THEN s[p] ELSE s[r]]

np_conj(a) ==
    IF IsExc(a) THEN a
    ELSE Arr(a.shape, [k \in 1..Size(a) |-> CConj(a.data[k])])

\* np.eye(n) as an n x n array
np_eye(n) == Arr(<<n, n>>, [k \in 1..(n * n) |-> IF (k - 1) \div n = (k - 1) % n THEN Z1 ELSE Z0])

\* a.reshape(shape): same data, new shape; the sizes must agree
np_reshape(a, shape) ==
    IF IsExc(a) THEN a
    ELSE IF ProdSeq(shape) # Size(a) THEN Raise("ValueError")
    ELSE Arr(shape, a.data)

\* np.swapaxes(a, i, j), axes 0-based as in the source
np_swapaxes(a, i, j) ==
    IF IsExc(a) THEN a
    ELSE LET ns == SwapAt(a.shape, i + 1, j + 1)
         IN  Arr(ns, [k \in 1..Size(a) |-> At(a, SwapAt(Unravel(k - 1, ns), i + 1, j + 1))])

\* np.tensordot(a, b, axes = ([i], [j])), axes 0-based as in the source
np_tensordot(a, b, i, j) ==
    IF IsExc(a) THEN a
    ELSE IF IsExc(b) THEN b
    ELSE IF IsNum(a) \/ IsNum(b) THEN Raise("IndexError")
    ELSE IF a.shape[i + 1] # b.shape[j + 1] THEN Raise("ValueError")
    ELSE LET sa == RemoveAt(a.shape, i + 1)
             sb == RemoveAt(b.shape, j + 1)
             ns == sa \o sb
             n  == a.shape[i + 1]
             el(k) == LET idx == Unravel(k - 1, ns)
                          ia  == SubSeq(idx, 1, Len(sa))
                          ib  == SubSeq(idx, Len(sa) + 1, Len(ns))
                      IN  CSum([s \in 1..n |->
                                   CMul(At(a, InsertAt(ia, i + 1, s - 1)),
                                        At(b, InsertAt(ib, j + 1, s - 1)))], n)
         IN  Arr(ns, [k \in 1..ProdSeq(ns) |-> el(k)])

\* np.kron of two 1-D arrays; a Python scalar acts as a factor
np_kron(a, b) ==
    IF IsExc(a) THEN a
    ELSE IF IsExc(b) THEN b
    ELSE IF IsNum(a) /\ IsNum(b) THEN Num(CMul(a.val, b.val))
    ELSE IF IsNum(a) THEN Arr(b.shape, [k \in 1..Size(b) |-> CMul(a.val, b.data[k])])
    ELSE IF IsNum(b) THEN Arr(a.shape, [k \in 1..Size(a) |-> CMul(a.data[k], b.val)])
    ELSE LET n == Size(a)
             m == Size(b)
         IN  Arr(<<n * m>>, [k \in 1..(n * m) |->
                    CMul(a.data[((k - 1) \div m) + 1], b.data[((k - 1) % m) + 1])])

\* a @ b for 1-D and 2-D arrays (np.dot of two 1-D arrays is the same sum)
np_matmul(a, b) ==
    IF IsExc(a) THEN a
    ELSE IF IsExc(b) THEN b
    ELSE LET da == Len(a.shape)
             db == Len(b.shape)
             inner == a.shape[da]
         IN  IF inner # b.shape[1] THEN Raise("ValueError")
             ELSE IF da = 1 /\ db = 1
                  THEN Num(CSum([s \in 1..inner |-> CMul(a.data[s], b.data[s])], inner))
             ELSE IF da = 2 /\ db = 1
                  THEN Arr(<<a.shape[1]>>, [r \in 1..a.shape[1] |->
                          CSum([s \in 1..inner |->
                                  CMul(a.data[(r - 1) * inner + s], b.data[s])], inner)])
             ELSE IF da = 1 /\ db = 2
                  THEN Arr(<<b.shape[2]>>, [c \in 1..b.shape[2] |->
                          CSum([s \in 1..inner |->
                                  CMul(a.data[s], b.data[(s - 1) * b.shape[2] + c])], inner)])
             ELSE LET m == b.shape[2]
                  IN  Arr(<<a.shape[1], m>>, [k \in 1..(a.shape[1] * m) |->
                          CSum([s \in 1..inner |->
                                  CMul(a.data[((k - 1) \div m) * inner + s],
                                       b.data[(s - 1) * m + ((k - 1) % m) + 1])], inner)])
np_dot(a, b) == np_matmul(a, b)

(* ------------------------------------------------------------------ *)
(* np.linalg.matrix_power                                             *)
(* ------------------------------------------------------------------ *)
\* Gauss-Jordan elimination on the rows of [M | I], column c onwards; the
\* empty sequence when a column has no pivot (LAPACK's exact-zero pivot)
RECURSIVE GaussJordan(_, _, _)
GaussJordan(rows, n, c) ==
    IF c > n THEN rows
    ELSE LET cand == {r \in c..n : ~CIsZero(rows[r][c])}
         IN  IF cand = {} THEN <<>>
             ELSE LET p   == CHOOSE r \in cand : \A q \in cand : r <= q
                      sw  == [r \in 1..n |-> IF r = c THEN rows[p]
                                             ELSE IF r = p THEN rows[c] ELSE rows[r]]
                      f   == CInv(sw[c][c])
                      piv == Eval([k \in 1..(2 * n) |-> CMul(f, sw[c][k])])
                      nxt == Eval([r \in 1..n |->
                                 IF r = c THEN piv
                                 ELSE [k \in 1..(2 * n) |->
                                          CAdd(sw[r][k], CNeg(CMul(sw[r][c], piv[k])))]])
                  IN  GaussJordan(nxt, n, c + 1)

\* np.linalg.inv of a square 2-D array
np_inv(a) ==
    LET n   == a.shape[1]
        aug == Eval([r \in 1..n |-> [k \in 1..(2 * n) |->
                      IF k <= n THEN a.data[(r - 1) * n + k]
                      ELSE IF k - n = r THEN Z1 ELSE Z0]])
        red == GaussJordan(aug, n, 1)
    IN  IF Len(red) = 0 THEN Raise("LinAlgError")
        ELSE Arr(<<n, n>>, [k \in 1..(n * n) |-> red[((k - 1) \div n) + 1][n + ((k - 1) % n) + 1]])

RECURSIVE PowPos(_, _)
PowPos(a, n) == IF n = 1 THEN a ELSE np_matmul(PowPos(a, n - 1), a)

\* matrix_power with the exponent required to be positive
matrix_power_positive(a, n) ==
    IF IsExc(a) THEN a
    ELSE IF Len(a.shape) # 2 \/ a.shape[1] # a.shape[2] THEN Raise("LinAlgError")
    ELSE IF n <= 0 THEN Raise("ValueError")
    ELSE PowPos(a, n)

\* np.linalg.matrix_power(a, n) for a Python int n
matrix_power(a, n) ==
    IF IsExc(a) THEN a
    ELSE IF Len(a.shape) # 2 \/ a.shape[1] # a.shape[2] THEN Raise("LinAlgError")
    ELSE IF n = 0 THEN np_eye(a.shape[1])
    ELSE IF n < 0
         THEN LET ai == np_inv(a) IN IF IsExc(ai) THEN ai ELSE PowPos(ai, 0 - n)
    ELSE PowPos(a, n)

(* ------------------------------------------------------------------ *)
(* class MPS                                                          *)
(* ------------------------------------------------------------------ *)
\* the constructor with chi read from the bond-in axis
MPS_init_bondin(tensors, L, bdry_vecs) ==
    IF Len(tensors) = 0 THEN Raise("IndexError")
    ELSE LET d   == tensors[1].shape[1]
             chi == tensors[1].shape[3]
             obj(bv) == [kind |-> "MPS", l_uc |-> Len(tensors), L |-> L,
                         tensors |-> tensors, d |-> d, chi |-> chi, bdry_vecs |-> bv]
         IN  IF IsNone(bdry_vecs[1]) THEN Raise("AttributeError")
             ELSE IF Size(bdry_vecs[1]) # chi THEN Raise("ValueError")
             ELSE IF IsNone(bdry_vecs[2]) THEN obj(<<bdry_vecs[1], None>>)
             ELSE IF Size(bdry_vecs[2]) # chi THEN Raise("ValueError")
             ELSE obj(<<bdry_vecs[1], bdry_vecs[2]>>)

\* MPS.__init__(self, tensors, L, bdry_vecs): the constructed object, or the
\* exception raised.  tensors is a Python list of rank-3 arrays.
\* Line 48 assigns through self.bdry_vec, an attribute that is never set.
MPS_init(tensors, L, bdry_vecs) ==
    IF Len(tensors) = 0 THEN Raise("IndexError")
    ELSE LET d   == tensors[1].shape[1]
             chi == tensors[1].shape[2]
             obj(bv) == [kind |-> "MPS", l_uc |-> Len(tensors), L |-> L,
                         tensors |-> tensors, d |-> d, chi |-> chi, bdry_vecs |-> bv]
         IN  IF IsNone(bdry_vecs[1]) THEN Raise("AttributeError")
             ELSE IF Size(bdry_vecs[1]) # chi THEN Raise("ValueError")
             ELSE IF IsNone(bdry_vecs[2]) THEN obj(<<bdry_vecs[1], None>>)
             ELSE IF Size(bdry_vecs[2]) # chi THEN Raise("ValueError")
             ELSE obj(<<bdry_vecs[1], bdry_vecs[2]>>)

\* the site matrix with the bra tensor left unconjugated
SiteNoOp_noconj(self, j) ==
    LET t_tensor == np_tensordot(self.tensors[j], self.tensors[j], 0, 0)
    IN  np_reshape(np_swapaxes(t_tensor, 1, 2), <<self.chi * self.chi, self.chi * self.chi>>)

\* one pass of the loop of MPS.transfer_matrix without operator (lines 78-87)
SiteNoOp(self, j) ==
    LET t_tensor == np_tensordot(np_conj(self.tensors[j]), self.tensors[j], 0, 0)
    IN  np_reshape(np_swapaxes(t_tensor, 1, 2), <<self.chi * self.chi, self.chi * self.chi>>)

\* the site matrix taking the operator's tensors counted from the end of its
\* unit cell
SiteOp_fromEnd(self, mpo, j) ==
    LET jo == Len(mpo.tensors) - self.l_uc + j
    IN  IF jo < 1 THEN Raise("IndexError")
        ELSE LET chi_1 == mpo.chi * self.chi
                 mpo_on_ket == np_tensordot(mpo.tensors[jo], self.tensors[j], 2, 0)
                 mpo_on_ket_reshape == np_reshape(np_swapaxes(mpo_on_ket, 2, 3),
                                                  <<self.d, chi_1, chi_1>>)
                 chi_t == chi_1 * self.chi
             IN  np_reshape(np_swapaxes(np_tensordot(np_conj(self.tensors[j]),
                                                     mpo_on_ket_reshape, 0, 0), 1, 2),
                            <<chi_t, chi_t>>)

\* one pass of the loop of MPS.transfer_matrix with an operator (lines 92-103)
SiteOp(self, mpo, j) ==
    IF j > Len(mpo.tensors) THEN Raise("IndexError")
    ELSE LET chi_1 == mpo.chi * self.chi
             mpo_on_ket == np_tensordot(mpo.tensors[j], self.tensors[j], 2, 0)
             mpo_on_ket_reshape == np_reshape(np_swapaxes(mpo_on_ket, 2, 3),
                                              <<self.d, chi_1, chi_1>>)
             chi_t == chi_1 * self.chi
         IN  np_reshape(np_swapaxes(np_tensordot(np_conj(self.tensors[j]),
                                                 mpo_on_ket_reshape, 0, 0), 1, 2),
                        <<chi_t, chi_t>>)

\* the loop accumulating on the other side, t_mat @ t_mat_site
RECURSIVE TMatLoop_rightMul(_, _, _)
TMatLoop_rightMul(self, mpo, j) ==
    IF j = 0
    THEN IF IsNone(mpo) THEN np_eye(self.chi * self.chi)
         ELSE np_eye(self.chi * self.chi * mpo.chi)
    ELSE LET t_mat == TMatLoop_rightMul(self, mpo, j - 1)
         IN  IF IsExc(t_mat) THEN t_mat
             ELSE LET t_mat_site == IF IsNone(mpo) THEN SiteNoOp(self, j)
                                    ELSE SiteOp(self, mpo, j)
                  IN  np_matmul(t_mat, t_mat_site)

\* t_mat after the first j passes of the loop
RECURSIVE TMatLoop(_, _, _)
TMatLoop(self, mpo, j) ==
    IF j = 0
    THEN IF IsNone(mpo) THEN np_eye(self.chi * self.chi)
         ELSE np_eye(self.chi * self.chi * mpo.chi)
    ELSE LET t_mat == TMatLoop(self, mpo, j - 1)
         IN  IF IsExc(t_mat) THEN t_mat
             ELSE LET t_mat_site == IF IsNone(mpo) THEN SiteNoOp(self, j)
                                    ELSE SiteOp(self, mpo, j)
                  IN  np_matmul(t_mat_site, t_mat)

\* MPS.transfer_matrix(self, mpo)
transfer_matrix(self, mpo) == TMatLoop(self, mpo, self.l_uc)

\* MPS.expect(self, mpo)
expect(self, mpo) ==
    IF self.L.kind = "int"
    THEN LET t_mat == matrix_power(transfer_matrix(self, mpo), self.L.val)
             chi   == self.chi
             rvec  == np_reshape(np_eye(chi), <<chi * chi>>)
         IN  IF IsExc(t_mat) THEN t_mat
             ELSE IF IsNone(mpo)
             THEN LET bvec_l == np_kron(np_conj(self.bdry_vecs[1]), self.bdry_vecs[1])
                  IN  IF IsNone(self.bdry_vecs[2])
                      THEN LET t_mat_on_rvec == np_reshape(np_matmul(t_mat, bvec_l), <<chi * chi>>)
                           IN  np_dot(rvec, t_mat_on_rvec)
                      ELSE LET bvec_r == np_kron(np_conj(self.bdry_vecs[2]), self.bdry_vecs[2])
                           IN  np_matmul(np_matmul(np_conj(bvec_r), t_mat), bvec_l)
             ELSE LET bvec_l == np_kron(np_conj(self.bdry_vecs[1]),
                                        np_kron(mpo.bdry_vecs[1], self.bdry_vecs[1]))
                  IN  IF IsNone(self.bdry_vecs[2])
                      THEN LET t_vleft == np_reshape(np_matmul(t_mat, bvec_l),
                                                     <<chi, mpo.chi, chi>>)
                               mpo_rvec_contracted ==
                                   np_reshape(np_tensordot(mpo.bdry_vecs[2], t_vleft, 0, 1),
                                              <<chi * chi>>)
                           IN  np_dot(rvec, mpo_rvec_contracted)
                      ELSE LET bvec_r == np_kron(np_conj(self.bdry_vecs[2]),
                                                 np_kron(mpo.bdry_vecs[2], self.bdry_vecs[2]))
                           IN  np_matmul(np_matmul(np_conj(bvec_r), t_mat), bvec_l)
    ELSE Raise("NotImplementedError")

\* MPS.check_rcf(self) and MPS.convert_rcf(self)
check_rcf(self) == Raise("NotImplementedError")
convert_rcf(self) == Raise("NotImplementedError")

(* ------------------------------------------------------------------ *)
(* class MPO                                                          *)
(* ------------------------------------------------------------------ *)
\* the list self.bdry_vecs after pass j (0-based) of the loop of lines 206-214;
\* "+=" of an array to a list appends the array's elements one by one
RECURSIVE MPOBdryLoop(_, _, _)
MPOBdryLoop(bdry_vecs, chi, j) ==
    IF j < 0 THEN <<>>
    ELSE LET prev == MPOBdryLoop(bdry_vecs, chi, j - 1)
         IN  IF Len(prev) = 1 /\ IsExc(prev[1]) THEN prev
             ELSE IF IsNone(bdry_vecs[j + 1])
             THEN LET ext == prev \o [k \in 1..chi |-> Num(Z0)]
                  IN  [ext EXCEPT ![j + 1] = Num(Z1)]
             ELSE IF Size(bdry_vecs[j + 1]) # chi THEN <<Raise("ValueError")>>
             ELSE Append(prev, bdry_vecs[j + 1])

\* MPO.__init__(self, tensors, L, bdry_vecs): the constructed object, or the
\* exception raised.  tensors is a Python list of rank-4 arrays with index
\* order (physical out, bond out, physical in, bond in); chi is read from
\* axis 2.
MPO_init(tensors, L, bdry_vecs) ==
    IF Len(tensors) = 0 THEN Raise("IndexError")
    ELSE LET d   == tensors[1].shape[1]
             chi == tensors[1].shape[3]
             bv  == MPOBdryLoop(bdry_vecs, chi, 1)
         IN  IF Len(bv) = 1 /\ IsExc(bv[1]) THEN bv[1]
             ELSE [kind |-> "MPO", l_uc |-> Len(tensors), L |-> L,
                   tensors |-> tensors, d |-> d, chi |-> chi, bdry_vecs |-> bv]

(* ------------------------------------------------------------------ *)
(* inputs                                                             *)
(* ------------------------------------------------------------------ *)
Vec(data) == Arr(<<Len(data)>>, data)

\* state site tensors, index order (physical, bond-out, bond-in)
\* A[s,a,b] = delta(a,0) delta(s,b) with a phase on s = 1: an isometry, d = chi = 2
A_iso == Arr(<<2, 2, 2>>, <<Z1, Z0, Z0, Z0, Z0, Zi, Z0, Z0>>)
\* a unitary on the bond, d = 1, chi = 2
A_uni == Arr(<<1, 2, 2>>, <<Z0, Zi, Z1, Z0>>)
\* an invertible non-isometric tensor, d = 1, chi = 2
A_non == Arr(<<1, 2, 2>>, <<Z1, Z1, Z0, <<2, 0>>>>)
\* a phase, d = 1, chi = 1
A_one == Arr(<<1, 1, 1>>, <<Zi>>)
\* bond-out 2, bond-in 1
A_rect == Arr(<<1, 2, 1>>, <<Z1, Z0>>)
StateTensors == {A_iso, A_uni, A_non, A_one, A_rect}

\* operator site tensors, index order (physical out, bond out, physical in, bond in)
\* identity maps with operator bond dimension 1, for d = 1 and d = 2
O_id1 == Arr(<<1, 1, 1, 1>>, <<Z1>>)
O_id2 == Arr(<<2, 1, 2, 1>>, <<Z1, Z0, Z0, Z1>>)
\* the SWAP gate of physical and bond register, d = 2, bond dimension 2
O_swap == Arr(<<2, 2, 2, 2>>, <<Z1, Z0, Z0, Z0, Z0, Z0, Z1, Z0,
                               Z0, Z1, Z0, Z0, Z0, Z0, Z0, Z1>>)
OpTensors == {O_id1, O_id2, O_swap}

\* Python lists of at most MaxLuc tensors
Cells(T) == UNION {[1..n -> T] : n \in 0..MaxLuc}

\* boundary vectors
V_1 == Vec(<<Z1>>)
V_i == Vec(<<Zi>>)
V_10 == Vec(<<Z1, Z0>>)
V_0i == Vec(<<Z0, Zi>>)
LeftVecs == {None, V_i, V_0i}
RightVecs == {None, V_1, V_10}
\* [left, right] boundary vectors handed to the MPO constructor
OpBdry == {<<None, None>>, <<V_1, V_1>>, <<V_10, V_10>>}

\* chain lengths
Lengths == {PyInt(n) : n \in (0 - 1)..MaxL} \cup {np_inf}

(* ------------------------------------------------------------------ *)
(* the program: a session that constructs objects and calls methods   *)
(* ------------------------------------------------------------------ *)
VARIABLES
    mps,    \* the MPS object last constructed, None if its constructor raised
    mpo,    \* the MPO object last constructed, None if its constructor raised
    call,   \* the last call and its arguments
    out     \* what the last call returned, or the exception it raised
vars == <<mps, mpo, call, out>>

Init ==
    /\ mps = None
    /\ mpo = None
    /\ call = [op |-> "none"]
    /\ out = None

\* A session is a script like the one at the end of mps.py: it constructs the
\* state, then possibly an operator, then evaluates one quantity.  It runs
\* until a call raises: an uncaught exception ends it.
Queried == call.op \in {"transfer_matrix", "expect", "check_rcf", "convert_rcf"}
Running == ~IsExc(out) /\ ~Queried

\* state = MPS(tensors, L, bdry_vecs), once per session
NewMPS(tensors, L, bdry_vecs) ==
    LET r == MPS_init(tensors, L, bdry_vecs)
    IN  /\ Running
        /\ IsNone(mps)
        /\ mps' = IF IsExc(r) THEN None ELSE r
        /\ out' = IF IsExc(r) THEN r ELSE None
        /\ call' = [op |-> "MPS", tensors |-> tensors, L |-> L, bdry_vecs |-> bdry_vecs]
        /\ UNCHANGED mpo

\* op = MPO(tensors, L, bdry_vecs), once per session
NewMPO(tensors, L, bdry_vecs) ==
    LET r == MPO_init(tensors, L, bdry_vecs)
    IN  /\ Running
        /\ ~IsNone(mps)
        /\ IsNone(mpo)
        /\ mpo' = IF IsExc(r) THEN None ELSE r
        /\ out' = IF IsExc(r) THEN r ELSE None
        /\ call' = [op |-> "MPO", tensors |-> tensors, L |-> L, bdry_vecs |-> bdry_vecs]
        /\ UNCHANGED mps

\* state.transfer_matrix() or state.transfer_matrix(op)
CallTransferMatrix(withOp) ==
    /\ Running
    /\ ~IsNone(mps)
    /\ withOp => ~IsNone(mpo)
    /\ out' = transfer_matrix(mps, IF withOp THEN mpo ELSE None)
    /\ call' = [op |-> "transfer_matrix", mpo |-> withOp]
    /\ UNCHANGED <<mps, mpo>>

\* state.expect() or state.expect(op)
CallExpect(withOp) ==
    /\ Running
    /\ ~IsNone(mps)
    /\ withOp => ~IsNone(mpo)
    /\ out' = expect(mps, IF withOp THEN mpo ELSE None)
    /\ call' = [op |-> "expect", mpo |-> withOp]
    /\ UNCHANGED <<mps, mpo>>

CallCheckRcf ==
    /\ Running
    /\ ~IsNone(mps)
    /\ out' = check_rcf(mps)
    /\ call' = [op |-> "check_rcf"]
    /\ UNCHANGED <<mps, mpo>>

CallConvertRcf ==
    /\ Running
    /\ ~IsNone(mps)
    /\ out' = convert_rcf(mps)
    /\ call' = [op |-> "convert_rcf"]
    /\ UNCHANGED <<mps, mpo>>

\* sessions with an operator draw the state from these smaller sets
PairedTensors == {A_iso, A_one}
PairedLengths == {PyInt(1), PyInt(MaxL)}
PairedLeft == {V_i, V_10}

Next ==
    \/ \E tensors \in Cells(PairedTensors), L \in PairedLengths,
          l \in PairedLeft, r \in RightVecs : NewMPS(tensors, L, <<l, r>>)
    \/ \E tensors \in Cells(OpTensors), bdry_vecs \in OpBdry :
          NewMPO(tensors, np_inf, bdry_vecs)
    \/ \E withOp \in BOOLEAN : CallTransferMatrix(withOp)
    \/ \E withOp \in BOOLEAN : CallExpect(withOp)
    \/ CallCheckRcf
    \/ CallConvertRcf

Spec == Init /\ [][Next]_vars

\* sessions without operator
NextState ==
    \/ \E tensors \in Cells(StateTensors), L \in Lengths,
          l \in LeftVecs, r \in RightVecs : NewMPS(tensors, L, <<l, r>>)
    \/ CallTransferMatrix(FALSE)
    \/ CallExpect(FALSE)
    \/ CallCheckRcf
    \/ CallConvertRcf

SpecState == Init /\ [][NextState]_vars

(* ------------------------------------------------------------------ *)
(* notions the properties are stated with                             *)
(* ------------------------------------------------------------------ *)
\* a rank-3 site tensor is right-canonical: contracted with its conjugate over
\* the physical and the bond-out index it gives the identity on bond-in
IsRcf(A) ==
    \A b1, b2 \in 0..(A.shape[3] - 1) :
        LET terms == [k \in 1..(A.shape[1] * A.shape[2]) |->
                         LET s == (k - 1) \div A.shape[2]
                             a == (k - 1) % A.shape[2]
                         IN  CMul(CConj(At(A, <<s, a, b1>>)), At(A, <<s, a, b2>>))]
        IN  CSum(terms, A.shape[1] * A.shape[2]) = (IF b1 = b2 THEN Z1 ELSE Z0)
AllRcf(tensors) == \A j \in 1..Len(tensors) : IsRcf(tensors[j])

\* every tensor has bond-out = bond-in = the bond-out size of the first
SquareBond(tensors) ==
    \A j \in 1..Len(tensors) :
        /\ tensors[j].shape[2] = tensors[1].shape[2]
        /\ tensors[j].shape[3] = tensors[1].shape[2]
\* ... and all share the physical dimension
Uniform(tensors) ==
    /\ SquareBond(tensors)
    /\ \A j \in 1..Len(tensors) : tensors[j].shape[1] = tensors[1].shape[1]

\* <u|v> = sum of conj(u[b]) v[b] for 1-D arrays of one length
Inner(u, v) == CSum([b \in 1..Size(u) |-> CMul(CConj(u.data[b]), v.data[b])], Size(u))
\* the first standard basis vector of length n
BasisVec(n) == Vec([b \in 1..n |-> IF b = 1 THEN Z1 ELSE Z0])

PyBool(b) == [kind |-> "bool", val |-> b]

ExpectNoOp == call.op = "expect" /\ ~call.mpo
FiniteL == mps.L.kind = "int"
\* a method was called with the operator
OpCall == call.op \in {"transfer_matrix", "expect"} /\ call.mpo

\* determinant and adjugate of a square 2-D array, by cofactor expansion
Rows(a) == Eval([r \in 1..a.shape[1] |-> [c \in 1..a.shape[2] |->
                   a.data[(r - 1) * a.shape[2] + c]]])
Minor(rows, i, j) ==
    Eval([r \in 1..(Len(rows) - 1) |-> [c \in 1..(Len(rows) - 1) |->
            rows[IF r < i THEN r ELSE r + 1][IF c < j THEN c ELSE c + 1]]])
Sign(k, x) == IF k % 2 = 0 THEN x ELSE CNeg(x)
RECURSIVE DetRows(_)
DetRows(rows) ==
    IF Len(rows) = 1 THEN rows[1][1]
    ELSE CSum([c \in 1..Len(rows) |->
                 IF CIsZero(rows[1][c]) THEN Z0
                 ELSE Sign(1 + c, CMul(rows[1][c], DetRows(Minor(rows, 1, c))))],
              Len(rows))
Det(a) == DetRows(Rows(a))
Adjugate(a) ==
    LET n == a.shape[1]
        rows == Rows(a)
    IN  Arr(<<n, n>>, [k \in 1..(n * n) |->
            LET i == ((k - 1) \div n) + 1
                j == ((k - 1) % n) + 1
            IN  IF n = 1 THEN Z1 ELSE Sign(i + j, DetRows(Minor(rows, j, i)))])
RECURSIVE CPow(_, _)
CPow(x, n) == IF n = 0 THEN Z1 ELSE CMul(x, CPow(x, n - 1))

\* the boundary contraction of a chi^2 x chi^2 matrix m for the state self,
\* written out over the bond indices: with x[(a1,a)] the sum over (b1,b) of
\* m[(a1,a),(b1,b)] conj(l[b1]) l[b], the trace of x if the right boundary is
\* traced out and the sum of r[a1] conj(r[a]) x[(a1,a)] if it is the vector r
Contract(self, m) ==
    LET chi == self.chi
        n == chi * chi
        l == self.bdry_vecs[1]
        r == self.bdry_vecs[2]
        x == Eval([k \in 1..n |->
                 CSum([c \in 1..n |->
                         CMul(m.data[(k - 1) * n + c],
                              CMul(CConj(l.data[((c - 1) \div chi) + 1]),
                                   l.data[((c - 1) % chi) + 1]))], n)])
    IN  CSum([k \in 1..n |->
                LET a1 == ((k - 1) \div chi) + 1
                    a  == ((k - 1) % chi) + 1
                IN  IF IsNone(r) THEN (IF a1 = a THEN x[k] ELSE Z0)
                    ELSE CMul(CMul(r.data[a1], CConj(r.data[a])), x[k])], n)

(* ------------------------------------------------------------------ *)
(* C1                                                                 *)
(* ------------------------------------------------------------------ *)
\* C1: for a state whose site tensors are all right-canonical (with the bond
\* dimension of the first), a left boundary vector of unit norm, a traced-out
\* right boundary and a finite L >= 1, expect() without operator returns 1.
C1_Normalized ==
    (/\ ExpectNoOp
     /\ FiniteL
     /\ mps.L.val >= 1
     /\ SquareBond(mps.tensors)
     /\ AllRcf(mps.tensors)
     /\ IsNone(mps.bdry_vecs[2])
     /\ Inner(mps.bdry_vecs[1], mps.bdry_vecs[1]) = Z1)
    => out = Num(Z1)

\* a two-site unit cell of complex isometries, repeated MaxL times
C1_Witness ==
    /\ ExpectNoOp
    /\ mps.tensors = <<A_iso, A_uni>>
    /\ mps.L = PyInt(MaxL)
    /\ mps.bdry_vecs = <<V_0i, None>>
    /\ AllRcf(mps.tensors)
    /\ out = Num(Z1)

(* ------------------------------------------------------------------ *)
(* C2                                                                 *)
(* ------------------------------------------------------------------ *)
\* C2: constructing an MPS with bdry_vecs = [None, None] succeeds, with left
\* boundary (1,0,...,0) of length chi and right boundary None.
C2_DefaultBoundary ==
    (/\ call.op = "MPS"
     /\ Len(call.tensors) >= 1
     /\ call.bdry_vecs = <<None, None>>)
    => /\ ~IsExc(out)
       /\ ~IsNone(mps)
       /\ mps.bdry_vecs = <<BasisVec(call.tensors[1].shape[2]), None>>

C6_InfiniteChain ==
    (/\ ExpectNoOp
     /\ mps.L = np_inf
     /\ Uniform(mps.tensors)
     /\ AllRcf(mps.tensors)
     /\ IsNone(mps.bdry_vecs[2])
     /\ Inner(mps.bdry_vecs[1], mps.bdry_vecs[1]) = Z1)
    => out = Num(Z1)

C9_Canonicalization ==
    /\ call.op = "convert_rcf" => (~IsExc(out) /\ AllRcf(mps.tensors))
    /\ call.op = "check_rcf" => out = PyBool(AllRcf(mps.tensors))

(* ------------------------------------------------------------------ *)
(* C3                                                                 *)
(* ------------------------------------------------------------------ *)
\* an operator site tensor of shape (d, 1, d, 1) that is the identity map
IsIdentityOp(t) ==
    /\ t.shape[2] = 1
    /\ t.shape[4] = 1
    /\ t.shape[1] = t.shape[3]
    /\ \A po, pi \in 0..(t.shape[1] - 1) :
           At(t, <<po, 0, pi, 0>>) = (IF po = pi THEN Z1 ELSE Z0)

\* C3: for a state with finite L >= 1, an operator of the same unit-cell length
\* and physical dimension whose site tensors are identity maps of shape
\* (d, 1, d, 1), with boundary vectors (1), is constructed and gives
\* expect(mpo) = expect().
C3_IdentityOperator ==
    (/\ call.op = "MPO"
     /\ Len(call.tensors) = mps.l_uc
     /\ \A j \in 1..Len(call.tensors) :
            IsIdentityOp(call.tensors[j]) /\ call.tensors[j].shape[1] = mps.d
     /\ call.bdry_vecs = <<V_1, V_1>>
     /\ Uniform(mps.tensors)
     /\ FiniteL
     /\ mps.L.val >= 1)
    => /\ ~IsExc(out)
       /\ ~IsNone(mpo)
       /\ expect(mps, mpo) = expect(mps, None)

(* ------------------------------------------------------------------ *)
(* C5                                                                 *)
(* ------------------------------------------------------------------ *)
\* C5: with an explicit left boundary vector, the MPS and the MPO constructor
\* raise a shape error if an explicit boundary vector's length differs from
\* the bond dimension (the size of the bond-out axis, axis 1 in both index
\* orders), and otherwise store the boundary vectors unchanged.
C5_BoundaryLength ==
    (/\ call.op \in {"MPS", "MPO"}
     /\ Len(call.tensors) >= 1
     /\ ~IsNone(call.bdry_vecs[1]))
    => LET bond == call.tensors[1].shape[2]
           l == call.bdry_vecs[1]
           r == call.bdry_vecs[2]
           obj == IF call.op = "MPS" THEN mps ELSE mpo
       IN  IF Size(l) # bond \/ (~IsNone(r) /\ Size(r) # bond)
           THEN out = Raise("ValueError")
           ELSE out = None /\ ~IsNone(obj) /\ obj.bdry_vecs = call.bdry_vecs

CutCell(obj, n) == [obj EXCEPT !.tensors = SubSeq(obj.tensors, 1, n), !.l_uc = n]
Method(self, op) ==
    IF call.op = "expect" THEN expect(self, op) ELSE transfer_matrix(self, op)

AsVec(x) == IF IsNum(x) THEN Vec(<<x.val>>) ELSE x

\* C10: constructing an MPO with bdry_vecs = [None, None] gives a bdry_vecs
\* list of exactly two vectors, each (1,0,...,0) of the length of the
\* operator's bond dimension.
C10_DefaultOpBoundary ==
    (/\ call.op = "MPO"
     /\ Len(call.tensors) >= 1
     /\ call.bdry_vecs = <<None, None>>)
    => /\ ~IsExc(out)
       /\ Len(mpo.bdry_vecs) = 2
       /\ \A j \in 1..2 : AsVec(mpo.bdry_vecs[j]) = BasisVec(call.tensors[1].shape[2])

(* ------------------------------------------------------------------ *)
(* C11                                                                *)
(* ------------------------------------------------------------------ *)
\* the per-site matrix written entry by entry: row (a', a), column (b', b),
\* entry sum over s of conj(A[s, a', b']) * A[s, a, b]
SiteEntries(A, chi) ==
    Arr(<<chi * chi, chi * chi>>,
        Eval([k \in 1..(chi * chi * chi * chi) |->
            LET r  == (k - 1) \div (chi * chi)
                c  == (k - 1) % (chi * chi)
                a1 == r \div chi
                a  == r % chi
                b1 == c \div chi
                b  == c % chi
            IN  CSum([s \in 1..A.shape[1] |->
                        CMul(CConj(At(A, <<s - 1, a1, b1>>)), At(A, <<s - 1, a, b>>))],
                     A.shape[1])]))
\* the product X * Y of two n x n matrices, entry by entry
MatProduct(X, Y, n) ==
    Arr(<<n, n>>,
        Eval([k \in 1..(n * n) |->
            LET r == (k - 1) \div n
                c == (k - 1) % n
            IN  CSum([m \in 1..n |-> CMul(X.data[r * n + m], Y.data[(m - 1) * n + c + 1])], n)]))
\* T_{j-1} * ... * T_1 * T_0 for the first j sites of a unit cell
RECURSIVE OrderedProduct(_, _, _)
OrderedProduct(tensors, chi, j) ==
    IF j = 0
    THEN Arr(<<chi * chi, chi * chi>>,
             [k \in 1..(chi * chi * chi * chi) |->
                 IF (k - 1) \div (chi * chi) = (k - 1) % (chi * chi) THEN Z1 ELSE Z0])
    ELSE MatProduct(SiteEntries(tensors[j], chi), OrderedProduct(tensors, chi, j - 1), chi * chi)
\* the unit cell with its sites in the opposite order
Reversed(tensors) == [j \in 1..Len(tensors) |-> tensors[Len(tensors) + 1 - j]]

TMatNoOp == call.op = "transfer_matrix" /\ ~call.mpo

\* C11: for a state whose site tensors all have bond-out = bond-in = chi,
\* transfer_matrix() without operator returns the chi^2 x chi^2 matrix
\* T_{l_uc-1} * ... * T_1 * T_0 of the per-site matrices
\* T_j[(a', a), (b', b)] = sum_s conj(A_j[s, a', b']) * A_j[s, a, b];
\* in particular it is not the product in the opposite order whenever the
\* two products differ.
C11_OrderedProduct ==
    (TMatNoOp /\ SquareBond(mps.tensors)) =>
        LET T   == OrderedProduct(mps.tensors, mps.chi, mps.l_uc)
            Rev == OrderedProduct(Reversed(mps.tensors), mps.chi, mps.l_uc)
        IN  /\ IsArr(out)
            /\ out.shape = <<mps.chi * mps.chi, mps.chi * mps.chi>>
            /\ out = T
            /\ (T # Rev => out # Rev)
\* transfer_matrix() has returned for a two-site cell of a unitary and a
\* non-unitary tensor, whose site matrices do not commute
C11_Witness ==
    /\ TMatNoOp
    /\ mps.l_uc = 2
    /\ mps.tensors = <<A_uni, A_non>>
    /\ IsArr(out)
    /\ MatProduct(SiteEntries(A_non, 2), SiteEntries(A_uni, 2), 4)
         # MatProduct(SiteEntries(A_uni, 2), SiteEntries(A_non, 2), 4)
    /\ out = MatProduct(SiteEntries(A_non, 2), SiteEntries(A_uni, 2), 4)
====
